---------------------------- MODULE Spec2Model ----------------------------
(***************************************************************************)
(* Playback session of the terminal music player (src/src/app.rs), the     *)
(* key handler (src/src/event.rs) and the tick loop (src/src/main.rs).     *)
(*                                                                         *)
(* Conventions                                                             *)
(*  - Option<T> is a sequence of length <= 1: None == <<>>, Some(x) ==     *)
(*    <<x>>.                                                               *)
(*  - Durations and instants are whole milliseconds.                       *)
(*  - The f32 volume is an exact decimal in hundredths (0.5 is 50); an f32 *)
(*    argument is a record so that NaN can be passed; rounding of f32      *)
(*    sums is not modelled (min/max clamp exactly in IEEE arithmetic).     *)
(*  - The rodio Sink is the record [queue, paused, volume]: queue is       *)
(*    sink.len(), paused is sink.is_paused().                              *)
(*  - play() recurses on a decode failure; one invocation of play() is one *)
(*    step, and `call`/`frames` hold the pending recursion.                *)
(***************************************************************************)
EXTENDS Integers, Sequences, FiniteSets, TLC

VARIABLES
    app,          \* the App struct (app.rs:28-45)
    now,          \* the monotonic clock read by Instant::now()
    call,         \* "none"; "retry": play() is about to recurse; "panic"
    frames,       \* suspended play() invocations, each owning its local Sink
    result,       \* Result of the last fallible call: "ok", "err" (a
                  \* playback error) or "quit" (the key handler's
                  \* Err("Quit"))
    pc,           \* caller: "api" (any caller) or the position in main()
    pause_mark    \* history kept by the key handler: get_current_time()
                  \* read just before the last pause() of a playing
                  \* session, and whether resume() followed it

vars == <<app, now, call, frames, result, pc, pause_mark>>

---------------------------------------------------------------------------
\* Bounds of the model.

\* Largest catalog explored.
MaxSongs == 2

\* Number of clock advances explored.
MaxTicks == 2

\* Suspended play() frames counted before the counter saturates.
MaxFrames == 4

---------------------------------------------------------------------------
\* Program constants.

\* Duration::from_millis(100): the tick rate, used as the clock granule.
TickRate == 100

\* Duration::from_secs(180) in milliseconds.
FallbackDuration == 180000

\* App::new: volume: 0.5
InitialVolume == 50

---------------------------------------------------------------------------
\* Option<T>

None == <<>>

Some(x) == <<x>>

IsSome(o) == o # <<>>

Unwrap(o) == o[1]

UnwrapOr(o, d) == IF o # <<>> THEN o[1] ELSE d

Range(s) == {s[i] : i \in 1..Len(s)}

Min(a, b) == IF a < b THEN a ELSE b

Max(a, b) == IF a > b THEN a ELSE b

---------------------------------------------------------------------------
\* Catalog

\* A Song: `file` is what opening and decoding its path gives ("ok",
\* "corrupt": Decoder::new fails, "missing": File::open fails), `duration`
\* is what get_audio_duration probed.
Song(file, duration) == [file |-> file, duration |-> duration]

\* The tracks a catalog is drawn from: a playable track whose duration the
\* probe did not find, a playable track of known (sub-second) duration, and
\* a track the decoder rejects.
TrackTypes ==
    { Song("ok", None), Song("ok", Some(150)), Song("corrupt", None) }

RECURSIVE SeqsOfLen(_, _)
SeqsOfLen(S, n) ==
    IF n = 0 THEN {<<>>}
    ELSE {Append(s, x) : s \in SeqsOfLen(S, n - 1), x \in S}

Catalogs(types) == UNION {SeqsOfLen(types, n) : n \in 0..MaxSongs}

\* App::new followed by load_songs.
NewApp(songs) ==
    [ songs             |-> songs,
      current_index     |-> 0,
      playback_state    |-> "Stopped",
      current_time      |-> 0,
      volume            |-> InitialVolume,
      is_shuffle        |-> FALSE,
      shuffle_history   |-> <<>>,
      sink              |-> None,
      play_start_time   |-> None,
      current_play_time |-> 0 ]

---------------------------------------------------------------------------
\* App methods as functions of the session `a` and the clock reading `t`.

\* self.songs.get(self.current_index)
get_current_song(a) ==
    IF a.current_index < Len(a.songs)
    THEN Some(a.songs[a.current_index + 1]) ELSE None

get_total_duration(a) ==
    IF IsSome(get_current_song(a))
    THEN UnwrapOr(Unwrap(get_current_song(a)).duration, FallbackDuration)
    ELSE FallbackDuration

\* Variant of stop that forgets to reset current_play_time.
stop_keeps_play_time(a) ==
    [a EXCEPT !.sink = None,
              !.playback_state = "Stopped",
              !.current_time = 0,
              !.play_start_time = None]

stop(a) ==
    [a EXCEPT !.sink = None,
              !.playback_state = "Stopped",
              !.current_time = 0,
              !.play_start_time = None,
              !.current_play_time = 0]

\* One invocation of play() up to its return or its recursive call.
\* Variant of play that retries after a decode failure whatever the
\* catalog size.
play_always_retries(a, t) ==
    IF Len(a.songs) = 0 THEN [app |-> a, outcome |-> "ok"]
    ELSE IF a.current_index \notin 0..(Len(a.songs) - 1)
    THEN [app |-> stop(a), outcome |-> "panic"]
    ELSE LET s == stop(a)
             song == s.songs[s.current_index + 1]
         IN  CASE song.file = "missing" -> [app |-> s, outcome |-> "err"]
               [] song.file = "ok" ->
                    [app |-> [s EXCEPT
                        !.sink = Some([queue |-> 1, paused |-> FALSE,
                                       volume |-> s.volume]),
                        !.playback_state = "Playing",
                        !.play_start_time = Some(t),
                        !.current_play_time = 0],
                     outcome |-> "ok"]
               [] OTHER -> [app |-> s, outcome |-> "retry"]

\* Variant of play that gives up on a decode failure instead of retrying.
play_gives_up(a, t) ==
    IF Len(a.songs) = 0 THEN [app |-> a, outcome |-> "ok"]
    ELSE IF a.current_index \notin 0..(Len(a.songs) - 1)
    THEN [app |-> stop(a), outcome |-> "panic"]
    ELSE LET s == stop(a)
             song == s.songs[s.current_index + 1]
         IN  CASE song.file = "missing" -> [app |-> s, outcome |-> "err"]
               [] song.file = "ok" ->
                    [app |-> [s EXCEPT
                        !.sink = Some([queue |-> 1, paused |-> FALSE,
                                       volume |-> s.volume]),
                        !.playback_state = "Playing",
                        !.play_start_time = Some(t),
                        !.current_play_time = 0],
                     outcome |-> "ok"]
               [] OTHER -> [app |-> s, outcome |-> "ok"]

\* outcome: "ok" returned Ok, "err" returned Err (File::open failed),
\* "retry": decode failed with more than one song, next_without_play() and
\* play() follow, "panic": self.songs[self.current_index] is out of bounds.
play(a, t) ==
    IF Len(a.songs) = 0 THEN [app |-> a, outcome |-> "ok"]
    ELSE IF a.current_index \notin 0..(Len(a.songs) - 1)
    THEN [app |-> stop(a), outcome |-> "panic"]
    ELSE LET s == stop(a)
             song == s.songs[s.current_index + 1]
         IN  CASE song.file = "missing" -> [app |-> s, outcome |-> "err"]
               [] song.file = "ok" ->
                    [app |-> [s EXCEPT
                        !.sink = Some([queue |-> 1, paused |-> FALSE,
                                       volume |-> s.volume]),
                        !.playback_state = "Playing",
                        !.play_start_time = Some(t),
                        !.current_play_time = 0],
                     outcome |-> "ok"]
               [] OTHER ->
                    [app |-> s,
                     outcome |-> IF Len(s.songs) > 1 THEN "retry" ELSE "ok"]

pause(a, t) ==
    IF IsSome(a.sink)
    THEN [a EXCEPT
            !.sink = Some([Unwrap(a.sink) EXCEPT !.paused = TRUE]),
            !.playback_state = "Paused",
            !.current_play_time =
                IF IsSome(a.play_start_time)
                THEN t - Unwrap(a.play_start_time)
                ELSE a.current_play_time]
    ELSE a

\* Variant of resume that keeps the old play_start_time.
resume_keeps_start(a, t) ==
    IF IsSome(a.sink)
    THEN [a EXCEPT
            !.sink = Some([Unwrap(a.sink) EXCEPT !.paused = FALSE]),
            !.playback_state = "Playing"]
    ELSE a

resume(a, t) ==
    IF IsSome(a.sink)
    THEN [a EXCEPT
            !.sink = Some([Unwrap(a.sink) EXCEPT !.paused = FALSE]),
            !.playback_state = "Playing",
            !.play_start_time = Some(t - a.current_play_time)]
    ELSE a

\* Variant of toggle_shuffle that keeps the history when turning shuffle on.
toggle_shuffle_keeps_history(a) ==
    [a EXCEPT !.is_shuffle = ~a.is_shuffle]

toggle_shuffle(a) ==
    [a EXCEPT !.is_shuffle = ~a.is_shuffle,
              !.shuffle_history =
                  IF ~a.is_shuffle THEN <<>> ELSE a.shuffle_history]

\* Variant of next_shuffle's first statement that never clears the history.
SampledHistory_never_clears(a) == a.shuffle_history

\* Variant of the full-history clear that waits for one entry too many.
SampledHistory_clears_late(a) ==
    IF Len(a.shuffle_history) > Len(a.songs) THEN <<>> ELSE a.shuffle_history

\* The history the rejection sampler tests against: cleared when full.
SampledHistory(a) ==
    IF Len(a.shuffle_history) >= Len(a.songs) THEN <<>> ELSE a.shuffle_history

\* Variant of the sampling loop that accepts its first sample.
ShuffleCandidates_any(a) == 0..(Len(a.songs) - 1)

\* The indices the sampling loop can break with.
ShuffleCandidates(a) ==
    {i \in 0..(Len(a.songs) - 1) : i \notin Range(SampledHistory(a))}

\* next_shuffle: every session the random pick can produce.
next_shuffle(a) ==
    { [a EXCEPT !.shuffle_history = Append(SampledHistory(a), a.current_index),
                !.current_index = i] : i \in ShuffleCandidates(a) }

\* Variant of next_without_play whose sequential increment does not wrap.
next_without_play_no_wrap(a) ==
    IF Len(a.songs) = 0 THEN {a}
    ELSE IF a.is_shuffle THEN next_shuffle(a)
    ELSE {[a EXCEPT !.current_index = a.current_index + 1]}

\* next_without_play, which is also the index step of next().
next_without_play(a) ==
    IF Len(a.songs) = 0 THEN {a}
    ELSE IF a.is_shuffle THEN next_shuffle(a)
    ELSE {[a EXCEPT !.current_index = (a.current_index + 1) % Len(a.songs)]}

\* Variant of previous' index step that stays at 0 instead of wrapping.
previous_index_no_wrap(a) ==
    IF Len(a.songs) = 0 THEN a
    ELSE [a EXCEPT !.current_index =
            IF a.current_index = 0 THEN 0 ELSE a.current_index - 1]

\* Variant of previous' index step without the empty-catalog return.
previous_index_unguarded(a) ==
    [a EXCEPT !.current_index =
        IF a.current_index = 0 THEN Len(a.songs) - 1
        ELSE a.current_index - 1]

\* The index step of previous().
previous_index(a) ==
    IF Len(a.songs) = 0 THEN a
    ELSE [a EXCEPT !.current_index =
            IF a.current_index = 0 THEN Len(a.songs) - 1
            ELSE a.current_index - 1]

\* An f32 argument.
F32(x) == [nan |-> FALSE, v |-> x]

NaN == [nan |-> TRUE, v |-> 0]

\* f32::max and f32::min return the other operand when one is NaN.
f32_max(x, c) == IF x.nan THEN F32(c) ELSE F32(Max(x.v, c))

f32_min(x, c) == IF x.nan THEN F32(c) ELSE F32(Min(x.v, c))

\* Variant of set_volume that stores its argument unclamped.
set_volume_no_clamp(a, x) ==
    [a EXCEPT !.volume = x.v,
              !.sink = IF IsSome(a.sink)
                       THEN Some([Unwrap(a.sink) EXCEPT !.volume = x.v])
                       ELSE None]

\* Variant of set_volume that stores the volume without forwarding it to
\* the sink.
set_volume_skips_sink(a, x) ==
    [a EXCEPT !.volume = f32_min(f32_max(x, 0), 100).v]

set_volume(a, x) ==
    LET v == f32_min(f32_max(x, 0), 100).v
    IN  [a EXCEPT !.volume = v,
                  !.sink = IF IsSome(a.sink)
                           THEN Some([Unwrap(a.sink) EXCEPT !.volume = v])
                           ELSE None]

\* Variant of the condition without the !sink.is_paused() test.
AutoNextFires_ignores_pause(a) ==
    /\ IsSome(a.sink)
    /\ Unwrap(a.sink).queue = 0

\* The condition under which check_and_auto_next acts.
AutoNextFires(a) ==
    /\ IsSome(a.sink)
    /\ Unwrap(a.sink).queue = 0
    /\ ~Unwrap(a.sink).paused
    /\ a.playback_state = "Playing"

update_play_time(a, t) ==
    CASE a.playback_state = "Playing" ->
            IF IsSome(a.play_start_time)
            THEN [a EXCEPT !.current_play_time =
                    IF t - Unwrap(a.play_start_time) > get_total_duration(a)
                    THEN get_total_duration(a)
                    ELSE t - Unwrap(a.play_start_time)]
            ELSE a
      [] a.playback_state = "Paused" -> a
      [] OTHER -> [a EXCEPT !.current_play_time = 0]

get_current_time(a, t) ==
    CASE a.playback_state = "Playing" ->
            IF IsSome(a.play_start_time)
            THEN IF t - Unwrap(a.play_start_time) > get_total_duration(a)
                 THEN get_total_duration(a)
                 ELSE t - Unwrap(a.play_start_time)
            ELSE a.current_play_time
      [] a.playback_state = "Paused" -> a.current_play_time
      [] OTHER -> 0

\* A ratio of two durations, kept exact.
Frac(n, d) == [num |-> n, den |-> d]

FracEq(p, q) == p.num * q.den = q.num * p.den

\* Duration::as_secs: whole seconds.
as_secs(ms) == ms \div 1000

get_progress(a, t) ==
    IF as_secs(get_total_duration(a)) > 0
    THEN Frac(Max(Min(get_current_time(a, t), get_total_duration(a)), 0),
              get_total_duration(a))
    ELSE Frac(0, 1)

\* The Sink handles alive: the one the session holds, and the local one of
\* every suspended play() invocation (created by Sink::try_new, not moved
\* into self.sink on the decode failure, dropped when the invocation
\* returns).
live_sinks(a, suspended) ==
    suspended + (IF IsSome(a.sink) THEN 1 ELSE 0)

---------------------------------------------------------------------------
\* Calls of the session by any caller (pc = "api").

Idle == pc = "api" /\ call = "none"

\* The history of the last pause: the time read before it, and whether
\* resume() has followed.
Mark(time, resumed) == [time |-> time, resumed |-> resumed]

\* The history after resume() on session `a`.
Resumed(a, m) ==
    IF a.playback_state = "Paused" /\ IsSome(m)
    THEN Some(Mark(Unwrap(m).time, TRUE)) ELSE None

\* The effect of running one invocation of play() on session `a`.
RunPlay(a) ==
    LET r == play(a, now)
    IN  /\ app' = r.app
        /\ call' = IF r.outcome \in {"retry", "panic"} THEN r.outcome
                   ELSE "none"
        /\ frames' = IF r.outcome = "retry"
                     THEN Min(frames + 1, MaxFrames) ELSE 0
        /\ result' = IF r.outcome = "err" THEN "err" ELSE "ok"
        /\ pause_mark' = None

\* A call that cannot fail and starts no play().
Returns(a) ==
    /\ app' = a
    /\ result' = "ok"
    /\ UNCHANGED <<call, frames>>

Play ==
    /\ Idle
    /\ RunPlay(app)
    /\ UNCHANGED <<now, pc>>

\* The recursion of play() after a decode failure:
\* self.next_without_play()?; self.play()?
RetryPlay ==
    /\ call = "retry"
    /\ \E a \in next_without_play(app) : RunPlay(a)
    /\ UNCHANGED <<now, pc>>

Pause ==
    /\ Idle
    /\ Returns(pause(app, now))
    /\ pause_mark' = None
    /\ UNCHANGED <<now, pc>>

Resume ==
    /\ Idle
    /\ Returns(resume(app, now))
    /\ pause_mark' = None
    /\ UNCHANGED <<now, pc>>

Stop ==
    /\ Idle
    /\ Returns(stop(app))
    /\ pause_mark' = None
    /\ UNCHANGED <<now, pc>>

NextSong ==
    /\ Idle
    /\ \E a \in next_without_play(app) : RunPlay(a)
    /\ UNCHANGED <<now, pc>>

Previous ==
    /\ Idle
    /\ RunPlay(previous_index(app))
    /\ UNCHANGED <<now, pc>>

ToggleShuffle ==
    /\ Idle
    /\ Returns(toggle_shuffle(app))
    /\ UNCHANGED <<now, pc, pause_mark>>

\* set_volume called with one of the arguments X.
SetVolume(X) ==
    /\ Idle
    /\ \E x \in X : Returns(set_volume(app, x))
    /\ UNCHANGED <<now, pc, pause_mark>>

\* check_and_auto_next: next() with more than one song, else play().
AutoNext(a) ==
    IF AutoNextFires(a)
    THEN IF Len(a.songs) > 1
         THEN \E b \in next_without_play(a) : RunPlay(b)
         ELSE RunPlay(a)
    ELSE Returns(a) /\ UNCHANGED pause_mark

CheckAndAutoNext ==
    /\ Idle
    /\ AutoNext(app)
    /\ UNCHANGED <<now, pc>>

UpdatePlayTime ==
    /\ Idle
    /\ Returns(update_play_time(app, now))
    /\ UNCHANGED <<now, pc, pause_mark>>

---------------------------------------------------------------------------
\* Environment.

\* Wall-clock time passes.
Advance ==
    /\ now < MaxTicks * TickRate
    /\ now' = now + TickRate
    /\ UNCHANGED <<app, call, frames, result, pc, pause_mark>>

\* The audio thread plays the queued source to its end: sink.len() drops
\* to 0.  A paused sink does not consume its source.
SinkDrain ==
    /\ IsSome(app.sink)
    /\ Unwrap(app.sink).queue > 0
    /\ ~Unwrap(app.sink).paused
    /\ app' = [app EXCEPT !.sink = Some([Unwrap(app.sink) EXCEPT !.queue = 0])]
    /\ UNCHANGED <<now, call, frames, result, pc, pause_mark>>

---------------------------------------------------------------------------
\* handle_events / handle_key_event (event.rs:59-150).  An event is a key
\* code, or "Mouse", "Resize", "Focus", "Paste" for the other events.

QuitKeys == {"q", "Q"}

NextKeys == {"n", "N", "Right"}

PreviousKeys == {"p", "P", "Left"}

ShuffleKeys == {"s", "S"}

\* The volume a volume key asks set_volume for; vol is app.volume.
KeyVolume(k, vol) ==
    CASE k \in {"+", "="} -> f32_min(F32(vol + 10), 100)
      [] k = "-"  -> f32_max(F32(vol - 10), 0)
      [] k = "0"  -> F32(0)
      [] k = "1"  -> F32(10)
      [] k = "2"  -> F32(20)
      [] k = "3"  -> F32(30)
      [] k = "4"  -> F32(40)
      [] k = "5"  -> F32(50)
      [] k = "6"  -> F32(60)
      [] k = "7"  -> F32(70)
      [] k = "8"  -> F32(80)
      [] k = "9"  -> F32(90)
      [] k \in {"m", "M"} -> F32(100)
      [] k = "Up"   -> f32_min(F32(vol + 5), 100)
      [] k = "Down" -> f32_max(F32(vol - 5), 0)

VolumeKeys ==
    {"+", "=", "-", "0", "1", "2", "3", "4", "5", "6", "7", "8", "9",
     "m", "M", "Up", "Down"}

\* The session effect of handle_events(app, e).
handle_events(e) ==
    CASE e \in QuitKeys ->
            /\ result' = "quit"
            /\ UNCHANGED <<app, call, frames, pause_mark>>
      [] e = " " ->
            CASE app.playback_state = "Playing" ->
                    /\ Returns(pause(app, now))
                    /\ pause_mark' =
                         Some(Mark(get_current_time(app, now), FALSE))
              [] app.playback_state = "Paused" ->
                    /\ Returns(resume(app, now))
                    /\ pause_mark' = Resumed(app, pause_mark)
              [] OTHER -> RunPlay(app)
      [] e \in NextKeys -> \E a \in next_without_play(app) : RunPlay(a)
      [] e \in PreviousKeys -> RunPlay(previous_index(app))
      [] e \in ShuffleKeys ->
            Returns(toggle_shuffle(app)) /\ UNCHANGED pause_mark
      [] e \in VolumeKeys ->
            /\ Returns(set_volume(app, KeyVolume(e, app.volume)))
            /\ UNCHANGED pause_mark
      [] OTHER -> Returns(app) /\ UNCHANGED pause_mark

\* handle_events called by any caller with one of the events E.
HandleEvents(E) ==
    /\ Idle
    /\ \E e \in E : handle_events(e)
    /\ UNCHANGED <<now, pc>>

---------------------------------------------------------------------------
\* The tick loop of main() (main.rs:22-45).  pc is the statement about to
\* run; "exit" is the return after restore_terminal, "failed" a return
\* through `?` inside the loop.

\* app.check_and_auto_next()
MainCheck ==
    /\ pc = "check" /\ call = "none"
    /\ AutoNext(app)
    /\ pc' = "checked"
    /\ UNCHANGED now

\* the `?` on check_and_auto_next's Err
MainCheckFailed ==
    /\ pc = "checked" /\ call = "none" /\ result # "ok"
    /\ pc' = "failed"
    /\ UNCHANGED <<app, now, call, frames, result, pause_mark>>

\* app.update_play_time()
MainUpdate ==
    /\ pc = "checked" /\ call = "none" /\ result = "ok"
    /\ app' = update_play_time(app, now)
    /\ pc' = "draw"
    /\ UNCHANGED <<now, call, frames, result, pause_mark>>

\* terminal.draw(..)?  reads the session (ui::render) and may fail.
MainDraw ==
    /\ pc = "draw"
    /\ \E ok \in BOOLEAN : pc' = IF ok THEN "poll" ELSE "failed"
    /\ UNCHANGED <<app, now, call, frames, result, pause_mark>>

\* event_handler.next()? returning Ok(None), or failing.
MainPoll ==
    /\ pc = "poll"
    /\ \E ok \in BOOLEAN : pc' = IF ok THEN "check" ELSE "failed"
    /\ UNCHANGED <<app, now, call, frames, result, pause_mark>>

\* event_handler.next()? returning an event of E, handed to handle_events.
MainEvent(E) ==
    /\ pc = "poll" /\ call = "none"
    /\ \E e \in E : handle_events(e)
    /\ pc' = "handled"
    /\ UNCHANGED now

\* if let Err(_) = handle_events(..) { break; }
MainLoop ==
    /\ pc = "handled" /\ call = "none"
    /\ pc' = IF result # "ok" THEN "restore" ELSE "check"
    /\ UNCHANGED <<app, now, call, frames, result, pause_mark>>

\* restore_terminal(&mut terminal)?
MainRestore ==
    /\ pc = "restore"
    /\ \E ok \in BOOLEAN : pc' = IF ok THEN "exit" ELSE "restore_failed"
    /\ UNCHANGED <<app, now, call, frames, result, pause_mark>>

---------------------------------------------------------------------------
\* The session under any caller of the App methods.

\* The f32 argument set_volume is called with: above the range.
ApiVolumeArgs == {F32(150)}

Init ==
    /\ app \in {NewApp(s) : s \in Catalogs(TrackTypes)}
    /\ now = 0
    /\ call = "none"
    /\ frames = 0
    /\ result = "ok"
    /\ pc = "api"
    /\ pause_mark = None

Next ==
    \/ Play
    \/ RetryPlay
    \/ Pause
    \/ Resume
    \/ Stop
    \/ NextSong
    \/ Previous
    \/ ToggleShuffle
    \/ SetVolume(ApiVolumeArgs)
    \/ CheckAndAutoNext
    \/ UpdatePlayTime
    \/ Advance
    \/ SinkDrain

Spec == Init /\ [][Next]_vars

---------------------------------------------------------------------------
\* The volume under set_volume and the volume keys, on a one-track catalog.

\* The f32 arguments tried: NaN, below, inside and above the range.
VolumeArgs == {NaN, F32(-20), F32(0), F32(33), F32(100), F32(150)}

InitVolume ==
    /\ app = NewApp(<<Song("ok", None)>>)
    /\ now = 0
    /\ call = "none"
    /\ frames = 0
    /\ result = "ok"
    /\ pc = "api"
    /\ pause_mark = None

NextVolume ==
    \/ SetVolume(VolumeArgs)
    \/ HandleEvents(VolumeKeys \cup {" "})
    \/ Stop

SpecVolume == InitVolume /\ [][NextVolume]_vars

---------------------------------------------------------------------------
\* The program: main() driving the session from the terminal.

\* The tracks of the program's catalogs: playable, rejected by the decoder,
\* and one whose file cannot be opened.
MainTracks ==
    { Song("ok", Some(150)), Song("corrupt", None), Song("missing", None) }

\* The events delivered: play/pause, next, previous, shuffle, volume to the
\* maximum, quit, an unbound key and a mouse event.
MainEvents == {" ", "n", "Left", "s", "m", "q", "x", "Mouse"}

InitMain ==
    /\ app \in {NewApp(s) : s \in Catalogs(MainTracks)}
    /\ now = 0
    /\ call = "none"
    /\ frames = 0
    /\ result = "ok"
    /\ pc = "check"
    /\ pause_mark = None

NextMain ==
    \/ MainCheck
    \/ MainCheckFailed
    \/ MainUpdate
    \/ MainDraw
    \/ MainPoll
    \/ MainEvent(MainEvents)
    \/ MainLoop
    \/ MainRestore
    \/ RetryPlay
    \/ Advance
    \/ SinkDrain

SpecMain == InitMain /\ [][NextMain]_vars

---------------------------------------------------------------------------
\* next_shuffle statement by statement (app.rs:263-281): the clear of a full
\* history, then the sampling loop, one iteration per step (pc =
\* "sampling"), then the push and the play() of its caller.

\* next() or the retry of play() enters next_shuffle:
\* if self.shuffle_history.len() >= self.songs.len() { clear }
ShuffleStart ==
    /\ pc = "api" /\ call \in {"none", "retry"}
    /\ Len(app.songs) >= 1
    /\ app.is_shuffle
    /\ app' = [app EXCEPT !.shuffle_history = SampledHistory(app)]
    /\ pc' = "sampling"
    /\ UNCHANGED <<now, call, frames, result, pause_mark>>

\* An iteration whose sample is in the history: the loop goes round.
SampleRejected ==
    /\ pc = "sampling"
    /\ \E i \in 0..(Len(app.songs) - 1) : i \in Range(app.shuffle_history)
    /\ UNCHANGED vars

\* An iteration whose sample is not in the history: break, push the
\* current index, take the sample, and play() as next() and the retry do.
SampleAccepted ==
    /\ pc = "sampling"
    /\ \E i \in 0..(Len(app.songs) - 1) :
          /\ i \notin Range(app.shuffle_history)
          /\ RunPlay([app EXCEPT
                        !.shuffle_history =
                            Append(app.shuffle_history, app.current_index),
                        !.current_index = i])
    /\ pc' = "api"
    /\ UNCHANGED now

\* The retry of play() with shuffle off.
SequentialRetry ==
    /\ ~app.is_shuffle
    /\ RetryPlay

InitShuffle ==
    /\ app \in {NewApp(s) : s \in Catalogs(TrackTypes)}
    /\ now = 0
    /\ call = "none"
    /\ frames = 0
    /\ result = "ok"
    /\ pc = "api"
    /\ pause_mark = None

NextShuffle ==
    \/ Play
    \/ Previous
    \/ ToggleShuffle
    \/ SequentialRetry
    \/ ShuffleStart
    \/ SampleRejected
    \/ SampleAccepted

\* rng.gen_range draws every index of 0..len with positive probability at
\* each iteration, so an iteration that accepts is not postponed forever.
SpecShuffle ==
    InitShuffle /\ [][NextShuffle]_vars /\ WF_vars(SampleAccepted)

---------------------------------------------------------------------------
\* Properties.

NumSongs == Len(app.songs)

AllPlayable == \A i \in 1..NumSongs : app.songs[i].file = "ok"

\* C1: with a non-empty catalog current_index is a valid index in every
\* reachable state (shuffle on or off, tracks failing to decode or not,
\* also between the retries of play()); with an empty catalog it keeps its
\* initial value 0.
IndexInRange ==
    /\ NumSongs >= 1 => app.current_index \in 0..(NumSongs - 1)
    /\ NumSongs = 0 => app.current_index = 0

\* C1 witness: shuffle is on, picks were made, a track of the catalog
\* fails to decode and the session plays the last index.
IndexInRangeWitness ==
    /\ NumSongs = 2
    /\ app.songs[1].file = "corrupt"
    /\ app.is_shuffle
    /\ Len(app.shuffle_history) = 2
    /\ app.current_index = 1
    /\ app.playback_state = "Playing"

\* C2: with shuffle off and every track playable, next() leaves
\* current_index = (i + 1) mod n and previous() leaves (i + n - 1) mod n,
\* and both leave the session Playing.
NextPreviousWrap ==
    [][ (NumSongs >= 1 /\ AllPlayable /\ ~app.is_shuffle) =>
          /\ NextSong =>
                /\ app'.current_index = (app.current_index + 1) % NumSongs
                /\ app'.playback_state = "Playing"
          /\ Previous =>
                /\ app'.current_index =
                       (app.current_index + NumSongs - 1) % NumSongs
                /\ app'.playback_state = "Playing" ]_vars

\* C2 witness: a two-track playable catalog, shuffle off, playing index 1,
\* which only next() from 0 or previous() from 0 (the wrap) reach.
NextPreviousWrapWitness ==
    /\ NumSongs = 2
    /\ AllPlayable
    /\ ~app.is_shuffle
    /\ app.shuffle_history = <<>>
    /\ app.current_index = 1
    /\ app.playback_state = "Playing"

\* C3: a Stopped session holds no sink, has no play_start_time and has a
\* zero accumulated play time.
StoppedIsClean ==
    app.playback_state = "Stopped" =>
        /\ app.sink = None
        /\ app.play_start_time = None
        /\ app.current_play_time = 0

\* C3 witness: a session stopped after it played: on a playable catalog
\* index 1 is reached only by playing, and the clock has advanced.
StoppedIsCleanWitness ==
    /\ app.playback_state = "Stopped"
    /\ NumSongs = 2
    /\ AllPlayable
    /\ app.current_index = 1
    /\ now > 0

\* C4: the accumulated play time never exceeds the total duration of the
\* current track (its known duration, or the fallback).
PlayTimeWithinTotal ==
    app.current_play_time <= get_total_duration(app)

\* C5: the stored volume is in [0.0, 1.0] in every reachable state, and
\* set_volume(x) stores x clamped to that range for every argument (for
\* NaN, a value of the range).
VolumeClamped ==
    /\ app.volume \in 0..100
    /\ \A x \in VolumeArgs :
          LET v == set_volume(app, x).volume
          IN  /\ v \in 0..100
              /\ ~x.nan =>
                    v = (IF x.v < 0 THEN 0 ELSE IF x.v > 100 THEN 100 ELSE x.v)
    /\ IsSome(app.sink) => Unwrap(app.sink).volume \in 0..100

\* C5 witness: the volume at the upper end of the range while a sink is
\* held, one step of '+' or Up away from leaving it.
VolumeClampedWitness ==
    /\ app.volume = 100
    /\ IsSome(app.sink)
    /\ Unwrap(app.sink).volume = 100

\* C6: a paused session carries the time read before its pause();
\* get_current_time() does not change while the session stays Paused,
\* whatever the clock does, and right after resume() it is the time read
\* before pause().
PauseResumeKeepsTime ==
    [][ app.playback_state = "Paused" =>
          /\ IsSome(pause_mark)
          /\ app'.playback_state = "Paused" =>
                get_current_time(app', now') = get_current_time(app, now)
          /\ handle_events(" ") =>
                /\ app'.playback_state = "Playing"
                /\ get_current_time(app', now') = Unwrap(pause_mark).time ]_vars

\* C6 witness: a session paused at 100 ms and resumed after the clock
\* went on to 200 ms reads 100 ms.
PauseResumeKeepsTimeWitness ==
    /\ app.playback_state = "Playing"
    /\ IsSome(pause_mark)
    /\ Unwrap(pause_mark).resumed
    /\ Unwrap(pause_mark).time = 100
    /\ now = 200
    /\ get_current_time(app, now) = 100

\* C7: get_progress() is current_time / total_duration clamped to [0, 1]
\* when total_duration is not zero, and 0 when it is zero.
ProgressIsClampedRatio ==
    LET ct == get_current_time(app, now)
        td == get_total_duration(app)
        p  == get_progress(app, now)
    IN  /\ 0 <= p.num /\ p.num <= p.den /\ p.den > 0
        /\ td # 0 => FracEq(p, Frac(Max(Min(ct, td), 0), td))
        /\ td = 0 => p.num = 0

\* C8: with shuffle on and at least two songs, next() never leaves
\* current_index where it was.
ShufflePickDiffers ==
    [][ (app.is_shuffle /\ NumSongs >= 2 /\ NextSong) =>
          app'.current_index # app.current_index ]_vars

\* A step in which next_shuffle ran: it alone changes the history while
\* shuffle is on.
ShufflePicked ==
    app.is_shuffle /\ app'.shuffle_history # app.shuffle_history

\* C9: with shuffle on and at least two songs, the index a pick leaves in
\* current_index is not in the history the pick was made against (the
\* history after the clear of a full history), and the pick pushes the
\* previous current_index.
ShufflePickNotInHistory ==
    [][ (ShufflePicked /\ NumSongs >= 2) =>
          LET h == IF Len(app.shuffle_history) >= NumSongs
                   THEN <<>> ELSE app.shuffle_history
          IN  /\ app'.current_index \notin Range(h)
              /\ app'.shuffle_history = Append(h, app.current_index) ]_vars

\* C9 witness: shuffle on, two songs, and a history holding two entries
\* (two picks since it was last cleared), changed by previous() in between
\* so that it holds the same index twice.
ShufflePickNotInHistoryWitness ==
    /\ app.is_shuffle
    /\ NumSongs = 2
    /\ Len(app.shuffle_history) = 2
    /\ app.shuffle_history[1] = app.shuffle_history[2]
    /\ app.playback_state = "Playing"

\* C10: check_and_auto_next() changes the session iff the session is
\* Playing and its sink is empty and not paused.  Then it does next() with
\* more than one song (index + 1 mod n with shuffle off) and play() of the
\* same song with one, and the call that returns Ok leaves the session
\* Playing with the elapsed time at zero; so does the return of its
\* decode-failure retries.  Otherwise every field is unchanged.
AutoNextContract ==
    [][ /\ CheckAndAutoNext =>
            IF /\ app.playback_state = "Playing"
               /\ IsSome(app.sink)
               /\ Unwrap(app.sink).queue = 0
               /\ ~Unwrap(app.sink).paused
            THEN /\ app' # app
                 /\ (NumSongs > 1 /\ ~app.is_shuffle) =>
                       app'.current_index = (app.current_index + 1) % NumSongs
                 /\ NumSongs > 1 /\ app.is_shuffle => ShufflePicked
                 /\ NumSongs = 1 =>
                       /\ app'.current_index = app.current_index
                       /\ app'.shuffle_history = app.shuffle_history
                 /\ (call' = "none" /\ result' = "ok") =>
                       /\ app'.playback_state = "Playing"
                       /\ app'.current_play_time = 0
                       /\ get_current_time(app', now') = 0
            ELSE app' = app
        /\ (RetryPlay /\ call' = "none" /\ result' = "ok") =>
              /\ app'.playback_state = "Playing"
              /\ get_current_time(app', now') = 0 ]_vars

\* C10 witness: catalog [A, B], shuffle off: the session plays index 1
\* from the start, 200 ms after the program started.
AutoNextContractWitness ==
    /\ NumSongs = 2
    /\ AllPlayable
    /\ ~app.is_shuffle
    /\ app.current_index = 1
    /\ app.playback_state = "Playing"
    /\ now = 200
    /\ app.play_start_time = Some(200)
    /\ Unwrap(app.sink).queue = 1

AllCorrupt == \A i \in 1..NumSongs : app.songs[i].file = "corrupt"

\* C11: on a catalog whose tracks all fail to decode, play() makes at most
\* as many retries as the catalog has songs, and returns with the session
\* Stopped.
RetriesBounded ==
    (NumSongs >= 1 /\ AllCorrupt) =>
        /\ frames <= NumSongs
        /\ app.playback_state = "Stopped"

\* C12: at most one Sink handle exists at any time, the retries of play()
\* included.
AtMostOneSink ==
    live_sinks(app, frames) <= 1

\* C13: with an empty catalog, play(), next(), previous(), pause(), resume()
\* and check_and_auto_next(), in any order and number, return Ok and leave
\* the session as it was: Stopped, no sink, and index, times and history at
\* the values they had.
EmptyCatalogNoOp ==
    /\ [](NumSongs = 0 =>
            /\ app.playback_state = "Stopped"
            /\ app.sink = None
            /\ app.current_index = 0
            /\ app.current_play_time = 0
            /\ app.current_time = 0
            /\ app.play_start_time = None
            /\ app.shuffle_history = <<>>
            /\ call = "none" /\ frames = 0 /\ result = "ok")
    /\ [][ (NumSongs = 0 /\ (Play \/ NextSong \/ Previous \/ Pause
                               \/ Resume \/ CheckAndAutoNext))
             => (app' = app /\ result' = "ok" /\ call' = "none") ]_vars

\* An empty catalog on which the session has been driven with shuffle
\* switched on and the volume changed.
EmptyCatalogNoOpWitness ==
    /\ NumSongs = 0
    /\ app.is_shuffle
    /\ app.volume # InitialVolume
    /\ now = MaxTicks * TickRate

\* main() has returned.
ProcessExited == pc \in {"exit", "failed", "restore_failed"}

\* restore_terminal has been called.
RestoreRan == pc \in {"exit", "restore_failed"}

\* C14: however the tick loop ends (quit key, render error, input-poll
\* error, error of check_and_auto_next), restore_terminal has run when the
\* process exits.
RestoreBeforeExit ==
    ProcessExited => RestoreRan

\* The tick loop has been left.
LoopEnded == pc \in {"restore", "exit", "failed", "restore_failed"}

\* C15: a playback error of play(), next() or previous(), from a key
\* command or from auto-advance, never ends the tick loop.
PlaybackErrorKeepsLoop ==
    ~(LoopEnded /\ result = "err")

\* C16: toggle_shuffle() flips the shuffle flag; when it turns shuffle on
\* the history is empty afterwards whatever it held; in both directions
\* current_index, playback state, volume and the time fields (and the sink
\* and the catalog) are unchanged.
ToggleShuffleContract ==
    [][ ToggleShuffle =>
          /\ app'.is_shuffle = ~app.is_shuffle
          /\ (app'.is_shuffle => app'.shuffle_history = <<>>)
          /\ app'.current_index = app.current_index
          /\ app'.playback_state = app.playback_state
          /\ app'.volume = app.volume
          /\ app'.current_time = app.current_time
          /\ app'.current_play_time = app.current_play_time
          /\ app'.play_start_time = app.play_start_time
          /\ app'.sink = app.sink
          /\ app'.songs = app.songs ]_vars

\* Shuffle has been switched off with picks recorded in the history, on a
\* session that is playing past its first track: the next toggle has a
\* history to clear.
ToggleShuffleContractWitness ==
    /\ ~app.is_shuffle
    /\ Len(app.shuffle_history) >= 2
    /\ app.playback_state = "Playing"
    /\ app.current_index > 0
    /\ call = "none"

\* The number of tracks from index i on, in cyclic order, that come before
\* the first decodable one.
Skipped(i) ==
    LET offs == {k \in 0..(NumSongs - 1) :
                    app.songs[((i + k) % NumSongs) + 1].file = "ok"}
    IN  CHOOSE k \in offs : \A j \in offs : k <= j

\* The first decodable index at or after i in cyclic order.
FirstDecodableFrom(i) == (i + Skipped(i)) % NumSongs

\* The index the running play() call was started at: every retry so far
\* has moved current_index by one.
PlayStart ==
    (app.current_index + NumSongs * MaxFrames - frames + 1) % NumSongs

\* The first invocation of a play() call entered at index i: it plays
\* track i, or it fails to decode it and starts the first retry.
PlayStartsAt(i) ==
    IF call' = "none"
    THEN /\ result' = "ok"
         /\ app'.playback_state = "Playing"
         /\ app'.current_index = i
         /\ Skipped(i) = 0
    ELSE /\ call' = "retry" /\ frames' = 1
         /\ app'.current_index = i
         /\ Skipped(i) > 0

SequentialWithDecodable ==
    /\ ~app.is_shuffle
    /\ NumSongs >= 2
    /\ \E i \in 1..NumSongs : app.songs[i].file = "ok"

\* C17: with shuffle off, n >= 2 tracks and at least one decodable, play()
\* started at index i (directly, or by next() or previous() after their
\* index step) ends Playing at the first decodable index at or after i in
\* cyclic order, after one retry per failing track in between and at most
\* n-1 retries.
SkipsFailingTracks ==
    /\ []((SequentialWithDecodable /\ call = "retry") =>
            /\ frames \in 1..(NumSongs - 1)
            /\ frames <= Skipped(PlayStart)
            /\ app.playback_state = "Stopped")
    /\ [][ SequentialWithDecodable =>
            /\ Play => PlayStartsAt(app.current_index)
            /\ NextSong => PlayStartsAt((app.current_index + 1) % NumSongs)
            /\ Previous =>
                 PlayStartsAt((app.current_index + NumSongs - 1) % NumSongs)
            /\ RetryPlay =>
                 IF call' = "none"
                 THEN /\ result' = "ok"
                      /\ app'.playback_state = "Playing"
                      /\ app'.current_index = FirstDecodableFrom(PlayStart)
                      /\ frames = Skipped(PlayStart)
                 ELSE /\ call' = "retry" /\ frames' = frames + 1
                      /\ PlayStart' = PlayStart ]_vars

\* play() is retrying after a failing last track, shuffle off: the retry
\* has to wrap to reach the decodable first track.
SkipsFailingTracksWitness ==
    /\ SequentialWithDecodable
    /\ call = "retry"
    /\ app.current_index = NumSongs - 1
    /\ app.songs[1].file = "ok"

SingleFailingTrack ==
    NumSongs = 1 /\ app.songs[1].file = "corrupt"

\* C18: with a catalog of exactly one track that fails to decode, play()
\* makes no retry: it returns Ok with the session Stopped, without sink and
\* at index 0, and repeating it gives the same state.
SingleFailingTrackStops ==
    /\ [](SingleFailingTrack =>
            /\ call = "none" /\ frames = 0 /\ result = "ok"
            /\ app.playback_state = "Stopped"
            /\ app.sink = None
            /\ app.current_index = 0)
    /\ [][ (SingleFailingTrack /\ Play) =>
             (app' = app /\ call' = "none" /\ result' = "ok") ]_vars

\* The single failing track has been through play(): next() with shuffle on
\* has recorded its pick before calling it.
SingleFailingTrackStopsWitness ==
    /\ SingleFailingTrack
    /\ app.shuffle_history = <<0>>
    /\ app.playback_state = "Stopped"
    /\ call = "none"

\* C19: pause() called in a state other than Playing, and resume() called
\* in a state other than Paused, leave the playback state, play_start_time
\* and the accumulated play time unchanged.
PauseResumeOnlyWhenMeaningful ==
    [][ ( \/ (Pause /\ app.playback_state # "Playing")
          \/ (Resume /\ app.playback_state # "Paused") ) =>
          /\ app'.playback_state = app.playback_state
          /\ app'.play_start_time = app.play_start_time
          /\ app'.current_play_time = app.current_play_time ]_vars

\* C20: when shuffle is enabled, next() and previous() both take the new
\* current_index from the shuffle selector: the pick is not in the history
\* (as left by the full-history clear) and the previous current_index is
\* pushed onto shuffle_history.
ShuffleUsedByNextAndPrevious ==
    [][ (app.is_shuffle /\ NumSongs >= 1 /\ (NextSong \/ Previous)) =>
          /\ app'.shuffle_history
                = Append(SampledHistory(app), app.current_index)
          /\ app'.current_index \notin Range(SampledHistory(app)) ]_vars

\* C21: shuffle_history never holds more entries than the catalog has
\* songs, and a pick made on a history that already holds that many starts
\* from the cleared history, whatever calls came before.
HistoryWithinCatalog ==
    /\ [](Len(app.shuffle_history) <= NumSongs)
    /\ [][ (ShufflePicked /\ Len(app.shuffle_history) >= NumSongs) =>
             app'.shuffle_history = <<app.current_index>> ]_vars

\* Shuffle is on and the history is full, one index recorded twice (the
\* session went back with previous() between two picks): the next pick has
\* to clear it.
HistoryWithinCatalogWitness ==
    /\ app.is_shuffle
    /\ NumSongs >= 2
    /\ Len(app.shuffle_history) = NumSongs
    /\ app.shuffle_history[1] = app.shuffle_history[2]
    /\ call = "none"

\* C22: the sampling loop of next_shuffle always terminates: whenever it
\* runs (catalog of at least one song, any reachable history, repeated
\* entries included) some index of the catalog is absent from the history,
\* and under fair random choice the loop is left.
SamplingTerminates ==
    /\ [](pc = "sampling" =>
            \E i \in 0..(NumSongs - 1) : i \notin Range(app.shuffle_history))
    /\ (pc = "sampling") ~> (pc = "api")

\* The loop is running on a history that can reject a sample, left by a
\* pick and a step back with previous().
SamplingTerminatesWitness ==
    /\ pc = "sampling"
    /\ NumSongs >= 2
    /\ app.shuffle_history # <<>>
    /\ app.current_index \in Range(app.shuffle_history)

\* C23: the session mirrors the sink in every reachable state: a sink is
\* held iff the state is Playing or Paused, play_start_time is set iff a
\* sink is held, and a held sink is paused iff the state is Paused and has
\* the session's stored volume.
SessionMirrorsSink ==
    /\ IsSome(app.sink) <=> app.playback_state \in {"Playing", "Paused"}
    /\ IsSome(app.play_start_time) <=> IsSome(app.sink)
    /\ IsSome(app.sink) =>
          /\ Unwrap(app.sink).paused <=> app.playback_state = "Paused"
          /\ Unwrap(app.sink).volume = app.volume

\* A paused session whose volume was changed while it held the sink.
SessionMirrorsSinkWitness ==
    /\ IsSome(app.sink)
    /\ app.playback_state = "Paused"
    /\ Unwrap(app.sink).paused
    /\ app.volume # InitialVolume
    /\ Unwrap(app.sink).volume = app.volume
    /\ IsSome(app.play_start_time)

===========================================================================
